---- MODULE Spec2Model ----
(***************************************************************************)
(* Model of the voice screen (RealtimeAnalysisScreen, the second component *)
(* of src/app/(tabs)/_layout.tsx): its WebSocket life cycle, reconnect     *)
(* timers, the framing of an utterance on the socket and the handling of   *)
(* replies; of the home screen's recording list bookkeeping                *)
(* (src/app/(tabs)/index.tsx) and the duration shown for a history entry   *)
(* (src/app/components/RecordingItem.tsx); and of the signup screen's      *)
(* handleSignup (src/app/auth/signup.tsx) and the auth guard               *)
(* (src/app/components/AuthGuard.tsx).                                     *)
(*                                                                         *)
(* React state is modelled by one variable per useState/useRef cell.  An   *)
(* async handler is cut at its awaits: one action per synchronous stretch. *)
(* Closures keep the user they were created with (socket handlers and      *)
(* timers carry the captured user id).  State setters of an unmounted      *)
(* component are dropped, refs and sockets live on.                        *)
(***************************************************************************)
EXTENDS Integers, Sequences, FiniteSets, TLC

\* ---------------------------------------------------------------- bounds
MaxUserChanges == 1   \* changes of user?.id after mount
MaxAbnormal    == 2   \* failed / abnormally closed sockets
MaxCtorFail    == 1   \* throwing `new WebSocket(...)` calls
MaxFaults      == 1   \* Spec: user changes, unmounts and failures together
MaxPresses     == 1   \* presses of the record button
MaxReplies     == 1   \* frames received from the backend
MaxChunks      == 2   \* longest recorded file, in chunks
MaxTicks       == 2   \* home screen: clock ticks of Date.now()
MaxClips       == 1   \* home screen: clips recorded
MaxSends       == 2   \* home screen: successful analyses
MaxSignups     == 1   \* signup screen: presses of the Sign Up button
MaxAuthChanges == 3   \* auth guard: changes of the auth context's state

\* ------------------------------------------------------ program constants
NoUser     == "nobody"
NoSock     == 0
NoClip     == 0
ChunkSize  == 8192
Users      == {"u1", "u2"}
Platforms  == {"web", "native"}
NormalCodes     == {1000, 1001}
AbnormalCodes   == {1005, 1006}
CloseCodes      == NormalCodes \cup AbnormalCodes
SockIds    == 1 .. (MaxUserChanges + 2)

RecordingText  == "Recording..."
SendingText    == "Sending audio..."
ProcessingText == "Processing audio..."

VARIABLES
    platform,          \* Platform.OS
    user,              \* useAuth().user?.id, NoUser when absent
    mounted,           \* "new" (constructed), "up" (effect has run), "gone"
    wsRef,             \* wsRef.current: a socket id or NoSock
    sock,              \* the WebSockets the screen created
    timers,            \* pending reconnect timers, oldest first
    isConnected, connectionStatus,
    isLoading, messages, isRecording, recording, isPlaying,
    pressed,           \* the record button is held down
    startPc, stopPc,   \* where startRecording / stopRecording is suspended
    msgCont,           \* the onmessage handler suspended in playAudioResponse
    nChanges, nAbnormal, nCtorFail, nPresses, nReplies,
    caps,              \* the bounds on the environment's moves (never changes)
    ev,                \* the last step taken (history)
    \* --- the home screen (index.tsx)
    now,               \* Date.now()
    paramUri,          \* params.recordingUri is present
    hRecording,        \* recording (an Audio.Recording or null)
    recordedURI,       \* recordedURI: a clip or NoClip
    hLoading,          \* isLoading / isSending
    sendPc,            \* sendAudioForTranscription: "idle", or the uri it awaits fetch for
    added,             \* the entries passed to addRecording, in order
    updated,           \* the ids passed to updateRecording, in order
    hev,               \* the last home screen step (history)
    \* --- the signup screen (auth/signup.tsx)
    form,              \* the six text fields
    suLoading,         \* loading
    suPc,              \* handleSignup: "idle", or the call it awaits
    suTried,           \* saveUserDetailsToBackend: endpoints tried so far
    suOut,             \* what the last signUp call returned
    suAlert,           \* an alert is up whose OK button navigates
    suRoute,           \* the route shown
    calls,             \* the calls made to the auth provider and the backend
    nSignups,
    \* --- the auth guard (components/AuthGuard.tsx)
    agUser,            \* the auth context's user (an object identity) or NoUser
    agLoading,         \* the auth context's loading
    agMounted,         \* "new", "up", "gone"
    agDeps,            \* [user, loading] as of the guard's last render
    agRoute,           \* the route last passed to router.replace, or "none"
    agEv,              \* the last guard step: what ran and whether it navigated
    nAuth

signupVars == <<form, suLoading, suPc, suTried, suOut, suAlert, suRoute, calls, nSignups>>
recVars == <<now, paramUri, hRecording, recordedURI, hLoading, sendPc, added, updated, hev>>
guardVars == <<agUser, agLoading, agMounted, agDeps, agRoute, agEv, nAuth>>
homeVars == <<recVars, signupVars, guardVars>>
connVars == <<wsRef, sock, timers, isConnected, connectionStatus, messages>>
vars == <<platform, user, mounted, wsRef, sock, timers, isConnected,
          connectionStatus, isLoading, messages, isRecording, recording,
          isPlaying, pressed, startPc, stopPc, msgCont,
          nChanges, nAbnormal, nCtorFail, nPresses, nReplies, caps, ev,
          now, paramUri, hRecording, recordedURI, hLoading, sendPc, added, updated, hev,
          form, suLoading, suPc, suTried, suOut, suAlert, suRoute, calls, nSignups,
          agUser, agLoading, agMounted, agDeps, agRoute, agEv, nAuth>>

\* ------------------------------------------------------------- helpers
NoneSock == [st |-> "none", uid |-> NoUser, wire |-> <<>>]

Msg(text, isUser) == [text |-> text, isUser |-> isUser]

Filter(ms, drop) == SelectSeq(ms, LAMBDA m : m.text \notin drop)

\* a setState call: dropped once the component is unmounted
Set(old, new) == IF mounted = "gone" THEN old ELSE new

\* the record of a step: what ran, on which socket, what it did
Ev(kind, code, ctor, sched) ==
    [kind |-> kind, code |-> code, ctor |-> ctor, sched |-> sched,
     rtype |-> "", rstatus |-> "", bare |-> FALSE, pre |-> FALSE, len |-> 0]

\* the connection state the handlers work on, as one record
CS == [wsRef |-> wsRef, sock |-> sock, timers |-> timers,
       isConnected |-> isConnected, connectionStatus |-> connectionStatus,
       messages |-> messages, ctor |-> 0, sched |-> 0, threw |-> 0]

IsOpen(c) == c.wsRef # NoSock /\ c.sock[c.wsRef].st = "open"

\* sockets nobody can observe any more are forgotten (model housekeeping)
Forget(c) ==
    [c EXCEPT !.sock = [s \in SockIds |->
        IF c.sock[s].st = "closed" /\ c.wsRef # s THEN NoneSock ELSE c.sock[s]]]

FreshSock(c) == CHOOSE s \in SockIds :
    /\ c.sock[s].st = "none"
    /\ \A t \in SockIds : t < s => c.sock[t].st # "none"

\* ws.send(frame): throws while CONNECTING, is dropped once CLOSING/CLOSED
SendOn(sk, s, frame) ==
    IF sk[s].st = "open"
    THEN [sk EXCEPT ![s].wire = Append(@, frame)]
    ELSE sk

\* ------------------------------------------------- connection handlers
ConnectWebSocket(c, uid, throws) ==
    IF uid = NoUser THEN c
    ELSE IF IsOpen(c) THEN c
    ELSE IF throws
    THEN [c EXCEPT
            !.connectionStatus = Set(@, "disconnected"),
            !.isConnected = Set(@, FALSE),
            !.messages = Set(@, Append(@, Msg("Failed to connect", FALSE))),
            !.timers = Append(@, [kind |-> "catch", uid |-> uid]),
            !.ctor = @ + 1,
            !.threw = @ + 1,
            !.sched = @ + 1]
    ELSE LET s == FreshSock(c) IN
         [c EXCEPT
            !.connectionStatus = Set(@, "connecting"),
            !.sock[s] = [st |-> "connecting", uid |-> uid, wire |-> <<>>],
            !.wsRef = s,
            !.ctor = @ + 1]

DisconnectWebSocket(c) ==
    LET c1 == IF c.wsRef # NoSock
              THEN [c EXCEPT
                      !.sock[c.wsRef].st =
                          IF @ \in {"connecting", "open"} THEN "closing" ELSE @,
                      !.wsRef = NoSock]
              ELSE c
    IN [c1 EXCEPT !.isConnected = Set(@, FALSE),
                  !.connectionStatus = Set(@, "disconnected")]

OnOpen(c, s) ==
    LET c1 == [c EXCEPT !.sock[s].st = "open"] IN
    [c1 EXCEPT
        !.isConnected = Set(@, TRUE),
        !.connectionStatus = Set(@, "connected"),
        !.sock = SendOn(@, s, [t |-> "connection", lo |-> 0, hi |-> 0])]

OnError(c, s) ==
    [c EXCEPT
        !.connectionStatus = Set(@, "disconnected"),
        !.isConnected = Set(@, FALSE),
        !.messages = Set(@, Append(@, Msg("Connection error", FALSE)))]

\* mutant: only code 1000 counts as a normal closure
ShouldReconnectOnlyNormal(code) == code # 1000

ShouldReconnect(code) == code # 1000 /\ code # 1001

OnClose(c, s, code) ==
    LET c1 == [c EXCEPT
                !.connectionStatus = Set(@, "disconnected"),
                !.isConnected = Set(@, FALSE)]
    IN IF ShouldReconnect(code)
       THEN [c1 EXCEPT !.timers = Append(@, [kind |-> "close", uid |-> c.sock[s].uid]),
                       !.sched = @ + 1]
       ELSE c1

\* the body of the 3 s timer set by onclose and of the 5 s timer set by catch
\* mutant: reconnects only when wsRef holds no socket at all
CloseTimerBodyNullOnly(c, uid, throws) ==
    IF uid # NoUser /\ c.wsRef = NoSock THEN ConnectWebSocket(c, uid, throws) ELSE c

CloseTimerBody(c, uid, throws) ==
    IF uid # NoUser /\ ~IsOpen(c) THEN ConnectWebSocket(c, uid, throws) ELSE c

CatchTimerBody(c, uid, throws) ==
    IF uid # NoUser THEN ConnectWebSocket(c, uid, throws) ELSE c

Commit(c0) ==
    LET c == Forget(c0) IN
    /\ wsRef' = c.wsRef
    /\ sock' = c.sock
    /\ timers' = c.timers
    /\ isConnected' = c.isConnected
    /\ connectionStatus' = c.connectionStatus
    /\ messages' = c.messages

Absent == ""
NoData == [type |-> Absent, status |-> Absent, message |-> Absent,
           transcription |-> Absent, answer |-> Absent, audio |-> FALSE]
NoCont == [kind |-> "none", d |-> NoData, pre |-> FALSE]

\* ------------------------------------------------------------- initial state
ConnCaps == [changes |-> MaxUserChanges, abnormal |-> MaxAbnormal,
             ctorFail |-> MaxCtorFail,
             faults |-> MaxUserChanges + MaxAbnormal + MaxCtorFail + 1,
             presses |-> 0, replies |-> 0]

\* the connection alone, with a budget on the faults of one run
FairCaps == [changes |-> MaxUserChanges, abnormal |-> MaxAbnormal,
             ctorFail |-> MaxCtorFail, faults |-> MaxFaults + 2,
             presses |-> 0, replies |-> 0]

ChatCaps == [changes |-> MaxUserChanges, abnormal |-> MaxAbnormal,
             ctorFail |-> MaxCtorFail, faults |-> MaxFaults,
             presses |-> MaxPresses, replies |-> MaxReplies]

\* a screen whose connection never fails
ReplyCaps == [changes |-> 0, abnormal |-> 0, ctorFail |-> 0, faults |-> 0,
              presses |-> MaxPresses, replies |-> MaxReplies]

\* a screen whose backend never answers
SilentCaps == [changes |-> 0, abnormal |-> MaxAbnormal, ctorFail |-> 0,
               faults |-> MaxFaults + 1,
               presses |-> MaxPresses, replies |-> 0]

\* a connection that never fails, and a backend that sends several frames
\* for one utterance
DialogCaps == [changes |-> 0, abnormal |-> 0, ctorFail |-> 0, faults |-> 0,
               presses |-> MaxPresses, replies |-> MaxReplies + 1]

NoText == <<>>
EmptyForm == [firstName |-> NoText, lastName |-> NoText, phoneNumber |-> NoText,
              email |-> NoText, password |-> NoText, confirmPassword |-> NoText]

InitSignupScreen ==
    /\ form = EmptyForm
    /\ suLoading = FALSE
    /\ suPc = "idle"
    /\ suTried = 0
    /\ suOut = "none"
    /\ suAlert = FALSE
    /\ suRoute = "signup"
    /\ calls = <<>>
    /\ nSignups = 0

\* the guard before its first render; the auth context in any state
InitGuard(users, loadings) ==
    /\ agUser \in users
    /\ agLoading \in loadings
    /\ agMounted = "new"
    /\ agDeps = <<NoUser, TRUE>>
    /\ agRoute = "none"
    /\ agEv = [kind |-> "init", nav |-> FALSE]
    /\ nAuth = 0

InitHome(fromHistory) ==
    /\ InitSignupScreen
    /\ InitGuard({NoUser}, {TRUE})
    /\ now = 0
    /\ paramUri \in fromHistory
    /\ hRecording = FALSE
    /\ recordedURI = NoClip
    /\ hLoading = FALSE
    /\ sendPc = "idle"
    /\ added = <<>>
    /\ updated = <<>>
    /\ hev = "init"

\* the voice screen after construction; u1 stands for either user
InitVoice(c, platforms) ==
    /\ caps = c
    /\ platform \in platforms
    /\ user \in {"u1", NoUser}
    /\ mounted = "new"
    /\ wsRef = NoSock
    /\ sock = [s \in SockIds |-> NoneSock]
    /\ timers = <<>>
    /\ isConnected = FALSE
    /\ connectionStatus = "disconnected"
    /\ isLoading = FALSE
    /\ messages = <<>>
    /\ isRecording = FALSE
    /\ recording = FALSE
    /\ isPlaying = FALSE
    /\ pressed = FALSE
    /\ startPc = "idle"
    /\ stopPc = "idle"
    /\ msgCont = NoCont
    /\ nChanges = 0 /\ nAbnormal = 0 /\ nCtorFail = 0
    /\ nPresses = 0 /\ nReplies = 0
    /\ ev = Ev("init", 0, 0, 0)

Init == InitVoice(ChatCaps, Platforms) /\ InitHome({FALSE})

\* the connection machinery never reads Platform.OS
InitConn == InitVoice(ConnCaps, {"native"}) /\ InitHome({FALSE})

\* environment moves still allowed
FaultOK ==
    nChanges + nAbnormal + nCtorFail + (IF mounted = "gone" THEN 1 ELSE 0) < caps.faults

ThrowChoices == IF nCtorFail < caps.ctorFail /\ FaultOK THEN BOOLEAN ELSE {FALSE}

chatVars == <<isLoading, isRecording, recording, isPlaying, pressed,
              startPc, stopPc, msgCont, nPresses, nReplies>>

\* a step of the connection machinery: commit c, record the step
ConnStep(c, kind, code) ==
    /\ Commit(c)
    /\ nCtorFail' = nCtorFail + c.threw
    /\ ev' = Ev(kind, code, c.ctor, c.sched)

\* ---------------------------------------------- mount, user change, unmount
\* useEffect(..., [user?.id]) on mount
Mount ==
    /\ mounted = "new"
    /\ \E throws \in ThrowChoices :
         ConnStep(ConnectWebSocket(CS, user, throws), "mount", 0)
    /\ mounted' = "up"
    /\ UNCHANGED <<homeVars, caps, platform, user, chatVars, nChanges, nAbnormal>>

EffectCleanup(c) ==
    [DisconnectWebSocket(c) EXCEPT !.messages = Set(@, <<>>)]

\* user?.id changes: the effect's cleanup, then the effect again
UserChange ==
    /\ mounted = "up"
    /\ nChanges < caps.changes /\ FaultOK
    /\ \E u \in (Users \cup {NoUser}) \ {user} : \E throws \in ThrowChoices :
         /\ user' = u
         /\ ConnStep(ConnectWebSocket(EffectCleanup(CS), u, throws),
                     "userChange", 0)
    /\ nChanges' = nChanges + 1
    /\ UNCHANGED <<homeVars, caps, platform, mounted, chatVars, nAbnormal>>

Unmount ==
    /\ mounted = "up" /\ FaultOK
    /\ ConnStep(EffectCleanup(CS), "unmount", 0)
    /\ mounted' = "gone"
    /\ UNCHANGED <<homeVars, caps, platform, user, chatVars, nChanges, nAbnormal>>

\* ------------------------------------------------------------ socket events
WsOpen ==
    /\ \E s \in SockIds :
         /\ sock[s].st = "connecting"
         /\ ConnStep(OnOpen(CS, s), "open", 0)
    /\ UNCHANGED <<homeVars, caps, platform, user, mounted, chatVars, nChanges, nAbnormal>>

Closed(c, s) == [c EXCEPT !.sock[s].st = "closed"]

\* the close event of an established or closing connection
WsClose ==
    /\ \E s \in SockIds : \E code \in CloseCodes :
         /\ sock[s].st \in {"open", "closing"}
         /\ code \in AbnormalCodes => (nAbnormal < caps.abnormal /\ FaultOK)
         /\ ConnStep(OnClose(Closed(CS, s), s, code), "close", code)
         /\ nAbnormal' = IF code \in AbnormalCodes THEN nAbnormal + 1 ELSE nAbnormal
    /\ UNCHANGED <<homeVars, caps, platform, user, mounted, chatVars, nChanges>>

\* a failed connection: the error event, then the close event (code 1006)
WsFail ==
    /\ nAbnormal < caps.abnormal /\ FaultOK
    /\ \E s \in SockIds :
         /\ sock[s].st \in {"connecting", "open", "closing"}
         /\ ConnStep(OnClose(OnError(Closed(CS, s), s), s, 1006), "fail", 1006)
    /\ nAbnormal' = nAbnormal + 1
    /\ UNCHANGED <<homeVars, caps, platform, user, mounted, chatVars, nChanges>>

\* ----------------------------------------------------------------- timers
RemoveAt(q, i) == [j \in 1 .. (Len(q) - 1) |-> IF j < i THEN q[j] ELSE q[j + 1]]

\* timers of one delay fire in the order they were set; a 3 s timer set
\* before a 5 s timer fires before it
MayFire(q, i) ==
    \A j \in 1 .. (i - 1) : q[j].kind = "catch" /\ q[i].kind = "close"

TimerFire ==
    /\ \E i \in 1 .. Len(timers) : \E throws \in ThrowChoices :
         /\ MayFire(timers, i)
         /\ LET c == [CS EXCEPT !.timers = RemoveAt(timers, i)]
                t == timers[i]
            IN IF t.kind = "close"
               THEN ConnStep(CloseTimerBody(c, t.uid, throws), "closeTimer", 0)
               ELSE ConnStep(CatchTimerBody(c, t.uid, throws), "catchTimer", 0)
    /\ UNCHANGED <<homeVars, caps, platform, user, mounted, chatVars, nChanges, nAbnormal>>

\* ------------------------------------------------------------ record button
ButtonEnabled == isConnected /\ ~isLoading /\ ~isPlaying

ChatEv(kind) == Ev("chat", 0, 0, 0)

\* onPressIn: startRecording up to its first await
PressIn ==
    /\ mounted = "up" /\ ~pressed /\ ButtonEnabled
    /\ startPc = "idle" /\ stopPc = "idle"
    /\ nPresses < caps.presses
    /\ pressed' = TRUE
    /\ nPresses' = nPresses + 1
    /\ startPc' = IF ~isConnected THEN "idle" ELSE "await"
    /\ ev' = ChatEv("pressIn")
    /\ UNCHANGED <<homeVars, caps, platform, user, mounted, connVars, isLoading, isRecording,
                   recording, isPlaying, stopPc, msgCont, nChanges, nAbnormal,
                   nCtorFail, nReplies>>

\* startRecording after requestPermissionsAsync / Recording.createAsync
StartRecordingResume ==
    /\ startPc = "await"
    /\ \E outcome \in {"denied", "throws", "ok"} :
         IF outcome = "ok"
         THEN /\ recording' = Set(recording, TRUE)
              /\ isRecording' = Set(isRecording, TRUE)
              /\ messages' = Set(messages, Append(messages, Msg(RecordingText, TRUE)))
         ELSE UNCHANGED <<recording, isRecording, messages>>
    /\ startPc' = "idle"
    /\ ev' = ChatEv("startResume")
    /\ UNCHANGED <<homeVars, caps, platform, user, mounted, wsRef, sock, timers, isConnected,
                   connectionStatus, isLoading, isPlaying, pressed, stopPc,
                   msgCont, nChanges, nAbnormal, nCtorFail, nPresses, nReplies>>

\* onPressOut: stopRecording up to `await stopAndUnloadAsync()`
PressOut ==
    /\ mounted = "up" /\ pressed
    /\ pressed' = FALSE
    /\ stopPc' = IF ~recording THEN "idle" ELSE "stopping"
    /\ ev' = ChatEv("pressOut")
    /\ UNCHANGED <<homeVars, caps, platform, user, mounted, connVars, isLoading, isRecording,
                   recording, isPlaying, startPc, msgCont, nChanges, nAbnormal,
                   nCtorFail, nPresses, nReplies>>

StartFrame == [t |-> "audio", lo |-> 0, hi |-> 0]
EndFrame   == [t |-> "audio_end", lo |-> 0, hi |-> 0]

\* mutant: line 667 tests only that wsRef.current is set
SocketUsableNonNull(c) == c.wsRef # NoSock

\* line 667: wsRef.current && wsRef.current.readyState === WebSocket.OPEN
SocketUsable(c) == IsOpen(c)

\* stopRecording from the return of stopAndUnloadAsync to the 100 ms wait
StopRecordingResume ==
    /\ stopPc = "stopping"
    /\ \E outcome \in {"throws", "nouri", "stopped"} :
         /\ ev' = [ChatEv("stopResume") EXCEPT !.rtype = outcome]
         /\ IF outcome = "throws"
            THEN \* outer catch
                 /\ isRecording' = Set(isRecording, FALSE)
                 /\ isLoading' = Set(isLoading, FALSE)
                 /\ messages' = Set(messages, Filter(messages, {RecordingText}))
                 /\ stopPc' = "idle"
                 /\ UNCHANGED <<recording, sock>>
            ELSE /\ recording' = Set(recording, FALSE)
                 /\ isRecording' = Set(isRecording, FALSE)
                 /\ IF outcome = "nouri" \/ ~SocketUsable(CS)
                    THEN /\ messages' = Set(messages, Filter(messages, {RecordingText}))
                         /\ stopPc' = "idle"
                         /\ UNCHANGED <<isLoading, sock>>
                    ELSE /\ messages' = Set(messages,
                               Append(Filter(messages, {RecordingText}), Msg(SendingText, TRUE)))
                         /\ isLoading' = Set(isLoading, TRUE)
                         /\ sock' = SendOn(sock, wsRef, StartFrame)
                         /\ stopPc' = "sending"
    /\ UNCHANGED <<homeVars, caps, platform, user, mounted, wsRef, timers, isConnected,
                   connectionStatus, isPlaying, pressed, startPc, msgCont,
                   nChanges, nAbnormal, nCtorFail, nPresses, nReplies>>

\* the recorded file, by its length in bytes
FileLens == {0} \cup {k * ChunkSize : k \in 1 .. MaxChunks}
                \cup {(k - 1) * ChunkSize + 1 : k \in 1 .. MaxChunks}

Min(a, b) == IF a < b THEN a ELSE b

\* mutant: the loop stops before a last, shorter chunk
ChunksWholeOnly(len) ==
    [k \in 1 .. (len \div ChunkSize) |->
        [t |-> "bin", lo |-> (k - 1) * ChunkSize, hi |-> Min(k * ChunkSize, len)]]

\* for (i = 0; i < len; i += chunkSize) slice(i, i + chunkSize)
Chunks(len) ==
    [k \in 1 .. ((len + ChunkSize - 1) \div ChunkSize) |->
        [t |-> "bin", lo |-> (k - 1) * ChunkSize, hi |-> Min(k * ChunkSize, len)]]

\* the mobile path reads the file as base64 and decodes it with atob: a
\* base64 text has 4 characters for every 3 bytes, the last group padded
Base64Len(len) == 4 * ((len + 2) \div 3)
Base64Pad(len) == (3 - (len % 3)) % 3
AtobLen(b64len, pad) == 3 * (b64len \div 4) - pad

\* for (i = 0; i < bytes.length; i += chunkSize) bytes.slice(i, i + chunkSize)
MobileChunks(len) == Chunks(AtobLen(Base64Len(len), Base64Pad(len)))

\* the chunks stopRecording sends for a file of len bytes
ChunksFor(os, len) == IF os = "web" THEN Chunks(len) ELSE MobileChunks(len)

RECURSIVE SendAll(_, _, _)
SendAll(sk, s, frames) ==
    IF frames = <<>> THEN sk
    ELSE SendAll(SendOn(sk, s, Head(frames)), s, Tail(frames))

\* wsRef.current.send(...) throws: on null, and while CONNECTING
SendThrows == wsRef = NoSock \/ sock[wsRef].st = "connecting"

\* stopRecording from the end of the file read to its end
StopRecordingSend ==
    /\ stopPc = "sending"
    /\ \E readFails \in BOOLEAN : \E len \in FileLens :
         IF readFails \/ len = 0 \/ SendThrows
         THEN \* inner catch
              /\ messages' = Set(messages,
                     Append(Filter(messages, {SendingText}), Msg("Error: send", FALSE)))
              /\ isLoading' = Set(isLoading, FALSE)
              /\ ev' = [ChatEv("stopSend") EXCEPT !.rtype = "caught"]
              /\ UNCHANGED sock
         ELSE /\ sock' = SendAll(sock, wsRef, ChunksFor(platform, len) \o <<EndFrame>>)
              /\ ev' = [ChatEv("stopSend") EXCEPT !.rtype = "sent", !.len = len]
              /\ UNCHANGED <<messages, isLoading>>
    /\ stopPc' = "idle"
    /\ UNCHANGED <<homeVars, caps, platform, user, mounted, wsRef, timers, isConnected,
                   connectionStatus, isRecording, recording, isPlaying, pressed,
                   startPc, msgCont, nChanges, nAbnormal, nCtorFail, nPresses,
                   nReplies>>

\* ------------------------------------------------------------ ws.onmessage
\* the JSON objects the backend may send (the fields the handler reads);
\* its texts differ from the client's own placeholder texts
Types == {"connection", "audio", "processing", "audio_response",
          "transcription", "answer", "error", "other", Absent}

Replies ==
    {d \in [type : Types, status : {"ready", "received", "done", Absent},
            message : {Absent, "hello"}, transcription : {Absent, "tr"},
            answer : {Absent, "ans"}, audio : BOOLEAN] :
        /\ d.type # "audio" => d.status = Absent
        /\ d.type = "audio" => d.status # Absent
        /\ d.type \in {"connection", "processing"} =>
              /\ d.message = "hello" /\ d.transcription = Absent
              /\ d.answer = Absent /\ ~d.audio}

Or(a, b) == IF a # Absent THEN a ELSE b

IsStatusAudio(d) == d.type = "audio" /\ d.status = "ready"

IsAudioResponse(d) ==
    \/ d.type = "audio_response"
    \/ (d.type = "audio" /\ d.status # "ready" /\ d.status # "received")

Placeholders == {SendingText, ProcessingText}

\* the handler's view of the state it sets: r.l isLoading, r.m messages,
\* r.h hasResponse
AudioBlock(d, r) ==
    IF IsAudioResponse(d)
    THEN [r EXCEPT !.h = TRUE, !.l = Set(@, FALSE),
                   !.m = Set(@, Append(Filter(@, Placeholders), Msg("Playing audio response...", FALSE)))]
    ELSE r

TranscriptionBlock(d, r) ==
    IF d.type = "transcription" \/ d.transcription # Absent
    THEN [r EXCEPT !.h = TRUE, !.l = Set(@, FALSE),
                   !.m = Set(@, Append(Filter(@, Placeholders),
                                    Msg(Or(d.transcription, d.message), FALSE)))]
    ELSE r

AnswerBlock(d, r) ==
    IF d.type = "answer" \/ d.answer # Absent
    THEN [r EXCEPT !.h = TRUE, !.l = Set(@, FALSE),
                   !.m = Set(@, Append(Filter(@, Placeholders),
                                    Msg(Or(d.answer, d.message), FALSE)))]
    ELSE r

\* `Error: ${data.message || 'Unknown error'}`
ErrorText(m) == IF m = Absent THEN "Error: Unknown error" ELSE "Error: hello"

\* mutant: the error branch keeps the placeholder
ErrorBlockNoFilter(d, r) ==
    IF d.type = "error"
    THEN [r EXCEPT !.h = TRUE, !.l = Set(@, FALSE),
                   !.m = Set(@, Append(@, Msg(ErrorText(d.message), FALSE)))]
    ELSE r

ErrorBlock(d, r) ==
    IF d.type = "error"
    THEN [r EXCEPT !.h = TRUE, !.l = Set(@, FALSE),
                   !.m = Set(@, Append(Filter(@, {SendingText}),
                                    Msg(ErrorText(d.message), FALSE)))]
    ELSE r

GenericBlock(d, r) ==
    IF /\ d.message # Absent /\ d.type # "connection" /\ ~IsStatusAudio(d)
       /\ (d.type # "audio" \/ (d.status # "ready" /\ d.status # "received"))
    THEN [r EXCEPT !.h = TRUE, !.l = Set(@, FALSE),
                   !.m = Set(@, IF Len(@) > 0 /\ @[Len(@)].text = d.message
                                THEN @
                                ELSE Append(Filter(@, {SendingText}), Msg(d.message, FALSE)))]
    ELSE r

FallbackBlock(d, r) ==
    IF /\ ~r.h /\ d.type # Absent /\ d.type # "connection"
       /\ ~IsStatusAudio(d) /\ d.type # "processing"
    THEN [r EXCEPT !.l = Set(@, FALSE),
                   !.m = Set(@, Append(Filter(@, Placeholders),
                                    Msg(Or(d.message, "json"), FALSE)))]
    ELSE r

\* lines 293-414: from the audio branch's setMessages to the end
HandlerRest(d, r) ==
    FallbackBlock(d, GenericBlock(d, ErrorBlock(d, AnswerBlock(d,
        TranscriptionBlock(d, AudioBlock(d, r))))))

ProcessingBlock(r) ==
    [r EXCEPT !.l = Set(@, TRUE),
              !.m = Set(@, Append(Filter(@, {SendingText}), Msg(ProcessingText, FALSE)))]

HasSending(ms) == \E i \in 1 .. Len(ms) : ms[i].text = SendingText /\ ms[i].isUser

R0 == [l |-> isLoading, m |-> messages, h |-> FALSE]

\* the frame carries type, status and message only
IsBare(d) == d.transcription = Absent /\ d.answer = Absent /\ ~d.audio

MsgEv(kind, d, pre) ==
    [Ev(kind, 0, 0, 0) EXCEPT !.rtype = d.type, !.rstatus = d.status,
                              !.bare = IsBare(d), !.pre = pre]

\* a JSON text frame arrives on socket s
WsMessageJson ==
    /\ nReplies < caps.replies
    /\ \E s \in SockIds : \E d \in Replies :
         /\ sock[s].st = "open"
         /\ IF d.type = "connection"
            THEN /\ UNCHANGED <<isLoading, messages, isPlaying, msgCont>>
                 /\ ev' = MsgEv("messageDone", d, FALSE)
            ELSE IF d.type = "processing"
            THEN /\ isLoading' = ProcessingBlock(R0).l
                 /\ messages' = ProcessingBlock(R0).m
                 /\ ev' = MsgEv("messageDone", d, FALSE)
                 /\ UNCHANGED <<isPlaying, msgCont>>
            ELSE IF IsAudioResponse(d) /\ d.audio
            THEN \* setIsLoading(false); await playAudioResponse(...)
                 /\ msgCont = NoCont
                 /\ isLoading' = Set(isLoading, FALSE)
                 /\ isPlaying' = Set(isPlaying, TRUE)
                 /\ msgCont' = [kind |-> "json", d |-> d,
                                pre |-> isLoading /\ HasSending(messages)]
                 /\ ev' = MsgEv("messageAwait", d, FALSE)
                 /\ UNCHANGED messages
            ELSE /\ isLoading' = HandlerRest(d, R0).l
                 /\ messages' = HandlerRest(d, R0).m
                 /\ ev' = MsgEv("messageDone", d, isLoading /\ HasSending(messages))
                 /\ UNCHANGED <<isPlaying, msgCont>>
    /\ nReplies' = nReplies + 1
    /\ UNCHANGED <<homeVars, caps, platform, user, mounted, wsRef, sock, timers, isConnected,
                   connectionStatus, isRecording, recording, pressed, startPc,
                   stopPc, nChanges, nAbnormal, nCtorFail, nPresses>>

\* a frame that is no JSON object: binary, unparsable text, or `null`
WsMessageOther ==
    /\ nReplies < caps.replies
    /\ \E s \in SockIds : \E what \in {"binary", "garbage", "null"} :
         /\ sock[s].st = "open"
         /\ IF what = "binary" /\ platform = "web"
            THEN /\ msgCont = NoCont
                 /\ isPlaying' = Set(isPlaying, TRUE)
                 /\ msgCont' = [kind |-> "blob", d |-> NoData, pre |-> FALSE]
                 /\ UNCHANGED messages
            ELSE IF what = "null"
            THEN \* data.type throws: the handler's catch
                 /\ messages' = Set(messages, Append(messages, Msg("Error processing message", FALSE)))
                 /\ UNCHANGED <<isPlaying, msgCont>>
            ELSE UNCHANGED <<messages, isPlaying, msgCont>>
         /\ ev' = [Ev("messageOther", 0, 0, 0) EXCEPT !.rtype = what]
    /\ nReplies' = nReplies + 1
    /\ UNCHANGED <<homeVars, caps, platform, user, mounted, wsRef, sock, timers, isConnected,
                   connectionStatus, isLoading, isRecording, recording, pressed,
                   startPc, stopPc, nChanges, nAbnormal, nCtorFail, nPresses>>

\* playAudioResponse returns (it catches its own errors): the handler goes on
WsMessageResume ==
    /\ msgCont # NoCont
    /\ \E played \in BOOLEAN :
         isPlaying' = IF played THEN isPlaying ELSE Set(isPlaying, FALSE)
    /\ IF msgCont.kind = "blob"
       THEN /\ messages' = Set(messages, Append(messages, Msg("Audio response received", FALSE)))
            /\ ev' = [Ev("messageOther", 0, 0, 0) EXCEPT !.rtype = "binary"]
            /\ UNCHANGED isLoading
       ELSE /\ isLoading' = HandlerRest(msgCont.d, R0).l
            /\ messages' = HandlerRest(msgCont.d, R0).m
            /\ ev' = MsgEv("messageDone", msgCont.d, msgCont.pre)
    /\ msgCont' = NoCont
    /\ UNCHANGED <<homeVars, caps, platform, user, mounted, wsRef, sock, timers, isConnected,
                   connectionStatus, isRecording, recording, pressed, startPc,
                   stopPc, nChanges, nAbnormal, nCtorFail, nPresses, nReplies>>

\* the sound finishes (didJustFinish), fails, or is stopped (stopPlaying)
PlaybackEnd ==
    /\ isPlaying /\ msgCont = NoCont /\ mounted = "up"
    /\ isPlaying' = FALSE
    /\ ev' = ChatEv("playbackEnd")
    /\ UNCHANGED <<homeVars, caps, platform, user, mounted, connVars, isLoading, isRecording,
                   recording, pressed, startPc, stopPc, msgCont, nChanges,
                   nAbnormal, nCtorFail, nPresses, nReplies>>

Next ==
    \/ Mount
    \/ UserChange
    \/ Unmount
    \/ WsOpen
    \/ WsClose
    \/ WsFail
    \/ TimerFire
    \/ PressIn
    \/ StartRecordingResume
    \/ PressOut
    \/ StopRecordingResume
    \/ StopRecordingSend
    \/ WsMessageJson
    \/ WsMessageOther
    \/ WsMessageResume
    \/ PlaybackEnd

Spec == Init /\ [][Next]_vars

\* the screen left alone: nobody presses the button, the backend is silent
NextConn ==
    \/ Mount
    \/ UserChange
    \/ Unmount
    \/ WsOpen
    \/ WsClose
    \/ WsFail
    \/ TimerFire

ConnSpec == InitConn /\ [][NextConn]_vars

\* the screen while its connection stays up: presses and replies only
\* (on the web every branch of onmessage is live)
InitReply == InitVoice(ReplyCaps, {"web"}) /\ user # NoUser /\ InitHome({FALSE})

NextReply ==
    \/ Mount
    \/ WsOpen
    \/ PressIn
    \/ StartRecordingResume
    \/ PressOut
    \/ StopRecordingResume
    \/ StopRecordingSend
    \/ WsMessageJson
    \/ WsMessageOther
    \/ WsMessageResume
    \/ PlaybackEnd

ReplySpec == InitReply /\ [][NextReply]_vars

\* the event loop runs every timer that is due
InitFair == InitVoice(FairCaps, {"native"}) /\ InitHome({FALSE})
ConnFairSpec == InitFair /\ [][NextConn]_vars /\ WF_vars(TimerFire)

\* the same screen with a backend that answers in several frames
InitDialog == InitVoice(DialogCaps, {"web"}) /\ user # NoUser /\ InitHome({FALSE})

DialogSpec == InitDialog /\ [][NextReply]_vars

\* the screen whose backend stays silent: presses, closes and reconnects;
\* every handler that is due runs
InitSilent == InitVoice(SilentCaps, Platforms) /\ user # NoUser /\ InitHome({FALSE})

NextSilent ==
    \/ Mount
    \/ WsOpen
    \/ WsClose
    \/ WsFail
    \/ TimerFire
    \/ PressIn
    \/ StartRecordingResume
    \/ PressOut
    \/ StopRecordingResume
    \/ StopRecordingSend

SilentSpec == InitSilent /\ [][NextSilent]_vars

SilentFairSpec ==
    /\ InitSilent /\ [][NextSilent]_vars
    /\ WF_vars(Mount) /\ WF_vars(WsOpen) /\ WF_vars(TimerFire)
    /\ WF_vars(StartRecordingResume) /\ WF_vars(PressOut)
    /\ WF_vars(StopRecordingResume) /\ WF_vars(StopRecordingSend)

\* ================================================================= claims
SocketCreated == \E s \in SockIds : sock[s].st = "none" /\ sock'[s].st = "connecting"

Live == {s \in SockIds : sock[s].st \in {"connecting", "open"}}

\* the frames of one socket, read as a sequence of utterances: `open` says a
\* start marker is unanswered, `next` is the file offset the next chunk has
RECURSIVE Framed(_, _, _)
Framed(w, open, next) ==
    IF w = <<>> THEN TRUE
    ELSE LET f == Head(w) IN
         CASE f.t = "connection" -> Framed(Tail(w), open, next)
           [] f.t = "audio"      -> ~open /\ Framed(Tail(w), TRUE, 0)
           [] f.t = "bin"        -> open /\ f.lo = next /\ f.hi > f.lo
                                    /\ Framed(Tail(w), TRUE, f.hi)
           [] f.t = "audio_end"  -> open /\ Framed(Tail(w), FALSE, 0)

RECURSIVE LeftOpen(_, _)
LeftOpen(w, open) ==
    IF w = <<>> THEN open
    ELSE LeftOpen(Tail(w), CASE Head(w).t = "audio" -> TRUE
                             [] Head(w).t = "audio_end" -> FALSE
                             [] OTHER -> open)

\* C1: on every socket the frames of an utterance go out as one start
\* marker, the chunks in file order, one end marker; no chunk outside them
C1_UtteranceFraming == \A s \in SockIds : Framed(sock[s].wire, FALSE, 0)

\* C2: once stopRecording has completed, no open socket holds a start
\* marker without its end marker
C2_NoUtteranceLeftOpen ==
    stopPc = "idle" => \A s \in SockIds : sock[s].st = "open" => ~LeftOpen(sock[s].wire, FALSE)

\* C3: an abnormal close sets a timer; the timer fires; when it fires and the
\* socket in wsRef is not OPEN, a connection attempt is made
C3_ReconnectAfterAbnormalClose ==
    /\ [][(ev'.kind \in {"close", "fail"} /\ ev'.code \notin {1000, 1001})
            => (Len(timers') = Len(timers) + 1 /\ timers'[Len(timers')].kind = "close")]_vars
    /\ [][(ev'.kind = "closeTimer" /\ ~IsOpen(CS)) => ev'.ctor = 1]_vars
    /\ ((\E i \in 1 .. Len(timers) : timers[i].kind = "close") ~> (ev.kind = "closeTimer"))

C3_Witness == ev.kind = "closeTimer" /\ ev.ctor = 1 /\ wsRef # NoSock

\* C5: a reply of type audio_response, transcription, answer or error that
\* finds isLoading set and the Sending placeholder listed leaves isLoading
\* false and no Sending placeholder (on the mounted screen)
ReplyTypes == {"audio_response", "transcription", "answer", "error"}

C6_NoSocketAfterUnmount == [][mounted = "gone" => ~SocketCreated]_vars

\* C7: at most one socket is CONNECTING or OPEN
C7_OneLiveSocket == Cardinality(Live) <= 1

\* C8: a close with code 1000 or 1001 sets no timer and creates no socket
C8_NormalCloseNoReconnect ==
    [][(ev'.kind = "close" /\ ev'.code \in {1000, 1001})
         => (timers' = timers /\ ~SocketCreated)]_vars

C8_Witness == ev.kind = "close" /\ ev.code \in {1000, 1001} /\ ev.sched = 0

\* C9: isConnected says that the socket in wsRef is open
C9_IsConnectedMeansOpen == mounted = "up" => (isConnected <=> IsOpen(CS))

\* C10: connectionStatus is 'connected' exactly when isConnected
C10_StatusAgrees == (connectionStatus = "connected") <=> isConnected

\* C11: after a press and its release, once startRecording and
\* stopRecording have both completed, recording is null and isRecording false
C11_PressReleasePaired ==
    (mounted = "up" /\ nPresses > 0 /\ ~pressed /\ startPc = "idle" /\ stopPc = "idle")
        => (~recording /\ ~isRecording)

\* C12: a close or error of the socket while isLoading is true is followed,
\* with no reply from the backend, by isLoading false (stated for the closes
\* that make the screen reconnect)
C12_LoadingEndsAfterClose ==
    (ev.kind \in {"close", "fail"} /\ ev.code \in AbnormalCodes /\ isLoading /\ mounted = "up")
        ~> ~isLoading

\* a is b with some entries left out
RECURSIVE IsSubseq(_, _)
IsSubseq(a, b) ==
    IF a = <<>> THEN TRUE
    ELSE IF b = <<>> THEN FALSE
    ELSE IF Head(a) = Head(b) THEN IsSubseq(Tail(a), Tail(b))
    ELSE IsSubseq(a, Tail(b))

\* the list after the step is the list before it, some entries filtered
\* out, followed by at most k new entries
AppendsAtMost(k) ==
    \E j \in 0 .. k :
        /\ j <= Len(messages')
        /\ IsSubseq(SubSeq(messages', 1, Len(messages') - j), messages)

\* C13: the handling of one JSON message appends at most one entry to the
\* messages list
C13_OneEntryPerMessage ==
    [][ev'.kind = "messageDone" => AppendsAtMost(1)]_vars

\* C14: a status message (type connection, or type audio with status ready
\* or received, and no payload field) adds no entry and leaves isLoading
StatusMessage(e) ==
    /\ e.kind = "messageDone" /\ e.bare
    /\ \/ e.rtype = "connection"
       \/ e.rtype = "audio" /\ e.rstatus \in {"ready", "received"}

C14_StatusMessagesSilent ==
    [][StatusMessage(ev') => (messages' = messages /\ isLoading' = isLoading)]_vars

HasPlaceholder(ms) == \E i \in 1 .. Len(ms) : ms[i].text \in Placeholders

\* C15: while no handler is suspended, isLoading false means that the list
\* holds no Sending and no Processing placeholder
C15_PlaceholdersOnlyWhileLoading ==
    (mounted = "up" /\ msgCont = NoCont /\ stopPc = "idle" /\ ~isLoading)
        => ~HasPlaceholder(messages)

\* the frames the step put on socket s
NewFrames(s) == SubSeq(sock'[s].wire, Len(sock[s].wire) + 1, Len(sock'[s].wire))

\* C16: the chunks sent for one utterance hold 1 .. 8192 bytes each, only
\* the last may hold fewer than 8192, and laid end to end in send order
\* they are the recorded file, on the web and on the mobile path
WellChunked(fs, len) ==
    LET n == Len(fs) - 1 IN
    /\ n >= 1 /\ fs[n + 1].t = "audio_end"
    /\ \A k \in 1 .. n :
          /\ fs[k].t = "bin"
          /\ fs[k].hi - fs[k].lo >= 1 /\ fs[k].hi - fs[k].lo <= 8192
          /\ k < n => fs[k].hi - fs[k].lo = 8192
          /\ fs[k].lo = IF k = 1 THEN 0 ELSE fs[k - 1].hi
    /\ fs[n].hi = len

C16_ChunksAreTheFile ==
    [][(ev'.kind = "chat" /\ ev'.rtype = "sent" /\ IsOpen(CS))
         => WellChunked(NewFrames(wsRef), ev'.len)]_vars

C16_Witness ==
    /\ ev.kind = "chat" /\ ev.rtype = "sent" /\ ev.len > 8192 /\ ev.len % 8192 # 0
    /\ platform = "native" /\ IsOpen(CS)
    /\ Len(sock[wsRef].wire) >= 3
    /\ sock[wsRef].wire[Len(sock[wsRef].wire) - 1].hi = ev.len

\* C17: whenever neither startRecording nor stopRecording is suspended,
\* isRecording is true exactly when recording is non-null
C17_IsRecordingIffRecording ==
    (mounted = "up" /\ startPc = "idle" /\ stopPc = "idle") => (isRecording <=> recording)

HasRecordingEntry(ms) == \E i \in 1 .. Len(ms) : ms[i].text = RecordingText

\* C18: when stopRecording, the recording stopped and its URI in hand,
\* finds wsRef empty or its socket not OPEN, it sends nothing on any socket,
\* leaves no Recording... entry, adds no entry and leaves isLoading as it is
C18_NoSendWithoutSocket ==
    [][(ev'.kind = "chat" /\ ev'.rtype = "stopped" /\ ~IsOpen(CS) /\ mounted = "up")
         => /\ sock' = sock
            /\ ~HasRecordingEntry(messages')
            /\ IsSubseq(messages', messages)
            /\ isLoading' = isLoading
            /\ stopPc' = "idle"]_vars

C18_Witness ==
    /\ ev.kind = "chat" /\ ev.rtype = "stopped" /\ ~IsOpen(CS) /\ mounted = "up"
    /\ wsRef # NoSock /\ stopPc = "idle" /\ ~isLoading /\ ~recording
    /\ ~HasRecordingEntry(messages)

\* ============================================================ home screen
voiceVars == <<platform, user, mounted, wsRef, sock, timers, isConnected,
               connectionStatus, isLoading, messages, isRecording, recording,
               isPlaying, pressed, startPc, stopPc, msgCont,
               nChanges, nAbnormal, nCtorFail, nPresses, nReplies, caps, ev>>

\* time passes
Tick ==
    /\ now < MaxTicks
    /\ now' = now + 1
    /\ UNCHANGED <<paramUri, hRecording, recordedURI, hLoading, sendPc, added,
                   updated, hev, voiceVars, signupVars, guardVars>>

\* useEffect on params.recordingUri: a clip opened from the history list
\* (clip MaxClips + 1 stands for it) is analysed at once
HomeOpenFromHistory ==
    /\ hev = "init" /\ paramUri
    /\ recordedURI' = MaxClips + 1
    /\ hLoading' = TRUE
    /\ sendPc' = "fetch"
    /\ hev' = "opened"
    /\ UNCHANGED <<now, paramUri, hRecording, added, updated, voiceVars, signupVars, guardVars>>

HomeStartRecording ==
    /\ ~hRecording /\ Len(added) < MaxClips
    /\ paramUri => hev # "init"
    /\ \E outcome \in {"denied", "throws", "ok"} :
         IF outcome = "denied" THEN UNCHANGED <<hRecording, recordedURI>>
         ELSE /\ recordedURI' = NoClip
              /\ hRecording' = (outcome = "ok")
    /\ hev' = "started"
    /\ UNCHANGED <<now, paramUri, hLoading, sendPc, added, updated, voiceVars, signupVars, guardVars>>

\* the id stopRecording gives the entry: `rec_${Date.now()}`
AddedId == now

\* the id sendAudioForTranscription passes to updateRecording
UpdatedId == now

\* the lengths getStatusAsync may report for the clip (durationMillis)
ClipMillis == {0, 999, 1000, 61000, 600000, 3723000}

\* a JavaScript number that is a quotient of integers, kept as the quotient
Quot(n, d) == [n |-> n, d |-> d]

\* status.durationMillis ? status.durationMillis / 1000 : 0
StoredDuration(ms) == IF ms # 0 THEN Quot(ms, 1000) ELSE Quot(0, 1)

\* Math.floor(x / k) for a quotient x
FloorDiv(x, k) == x.n \div (x.d * k)

\* RecordingItem's formatDuration: <<minutes, the two digits of the seconds>>
formatDuration(milliseconds) ==
    LET seconds == FloorDiv(milliseconds, 1000)
        minutes == seconds \div 60
        remainingSeconds == seconds % 60
    IN <<minutes, remainingSeconds \div 10, remainingSeconds % 10>>

\* the metadata line of a history entry
ShownDuration(rec) == formatDuration(rec.duration)

HomeStopRecording ==
    /\ hRecording
    /\ \E outcome \in {"throws", "nouri", "ok"} : \E ms \in ClipMillis :
         IF outcome = "throws" THEN UNCHANGED <<hRecording, recordedURI, added>>
         ELSE /\ hRecording' = FALSE
              /\ IF outcome = "nouri"
                 THEN recordedURI' = NoClip /\ UNCHANGED added
                 ELSE /\ recordedURI' = Len(added) + 1
                      /\ added' = Append(added, [id |-> AddedId, uri |-> Len(added) + 1,
                                                 millis |-> ms,
                                                 duration |-> StoredDuration(ms)])
    /\ hev' = "stopped"
    /\ UNCHANGED <<now, paramUri, hLoading, sendPc, updated, voiceVars, signupVars, guardVars>>

\* the Send button: sendAudioForTranscription(recordedURI) up to the fetch
HomeSend ==
    /\ recordedURI # NoClip /\ ~paramUri /\ ~hLoading
    /\ Len(updated) < MaxSends
    /\ hLoading' = TRUE
    /\ sendPc' = "fetch"
    /\ hev' = "sending"
    /\ UNCHANGED <<now, paramUri, hRecording, recordedURI, added, updated, voiceVars, signupVars, guardVars>>

\* the fetch returns
HomeSendResume ==
    /\ sendPc = "fetch"
    /\ \E outcome \in {"notok", "throws", "ok"} :
         IF outcome = "ok"
         THEN /\ updated' = IF ~paramUri THEN Append(updated, UpdatedId) ELSE updated
              /\ hev' = "analysed"
         ELSE /\ hev' = "failed"
              /\ UNCHANGED updated
    /\ hLoading' = FALSE
    /\ sendPc' = "idle"
    /\ UNCHANGED <<now, paramUri, hRecording, recordedURI, added, voiceVars, signupVars, guardVars>>

NextHome ==
    \/ Tick
    \/ HomeOpenFromHistory
    \/ HomeStartRecording
    \/ HomeStopRecording
    \/ HomeSend
    \/ HomeSendResume

InitHomeScreen ==
    /\ InitVoice(ConnCaps, {"native"}) /\ user = NoUser
    /\ InitHome(BOOLEAN)

HomeSpec == InitHomeScreen /\ [][NextHome]_vars

\* C4: after a fresh clip was analysed, updateRecording was called with the
\* id of the entry stopRecording added for that clip
C4_UpdateHitsAddedEntry ==
    (hev = "analysed" /\ ~paramUri /\ recordedURI # NoClip) =>
        \E i \in 1 .. Len(added) :
            /\ added[i].uri = recordedURI
            /\ added[i].id = updated[Len(updated)]

\* a clip's length as minutes and the two digits of the seconds
MinutesSeconds(ms) ==
    <<(ms \div 1000) \div 60, ((ms \div 1000) % 60) \div 10, ((ms \div 1000) % 60) % 10>>

\* C19: the duration shown for every history entry is the length the
\* recorder reported for the clip, as minutes:seconds
C19_ShownDurationIsClipLength ==
    \A i \in 1 .. Len(added) : ShownDuration(added[i]) = MinutesSeconds(added[i].millis)

\* ========================================================== signup screen
\* texts are sequences of characters; the values a field is tried with
Digits == {"0", "1", "2", "3", "4", "5", "6", "7", "8", "9"}
Chars == Digits \cup {"+", "(", ")", "-", ".", " ", "@", "a", "b", "c", "x", "p", "w", "A"}

Names == {NoText, <<"A">>}
Phones == {NoText, <<"5", "5">>, <<"5", "5", "5">>, <<"+", "1", " ", "5", "5">>,
           <<"5", "5", "x">>}
Emails == {NoText, <<"a">>, <<"a", "@", "b">>, <<"a", "@", "b", ".", "c">>,
           <<"a", " ", "@", "b", ".", "c">>}
Passwords == {NoText, <<"p", "w", "1", "2", "3">>, <<"p", "w", "1", "2", "3", "4">>,
              <<"p", "w", "1", "2", "3", "5">>}

FieldValues ==
    [firstName |-> Names, lastName |-> Names, phoneNumber |-> Phones,
     email |-> Emails, password |-> Passwords, confirmPassword |-> Passwords]

\* a regular expression anchored at both ends: a sequence of character
\* classes, each with the least and the most repetitions (-1: no limit)
Tok(cls, lo, hi) == [cls |-> cls, lo |-> lo, hi |-> hi]

RECURSIVE Matches(_, _)
Matches(re, text) ==
    IF re = <<>> THEN text = <<>>
    ELSE LET t == Head(re)
             most == IF t.hi = -1 THEN Len(text) ELSE Min(t.hi, Len(text))
         IN \E n \in t.lo .. most :
              /\ \A k \in 1 .. n : text[k] \in t.cls
              /\ Matches(Tail(re), SubSeq(text, n + 1, Len(text)))

\* /^[^\s@]+@[^\s@]+\.[^\s@]+$/
emailRegex ==
    LET other == Chars \ {" ", "@"} IN
    <<Tok(other, 1, -1), Tok({"@"}, 1, 1), Tok(other, 1, -1), Tok({"."}, 1, 1),
      Tok(other, 1, -1)>>

\* /^[+]?[(]?[0-9]{1,4}[)]?[-\s.]?[(]?[0-9]{1,4}[)]?[-\s.]?[0-9]{1,9}$/
phoneRegex ==
    <<Tok({"+"}, 0, 1), Tok({"("}, 0, 1), Tok(Digits, 1, 4), Tok({")"}, 0, 1),
      Tok({"-", " ", "."}, 0, 1), Tok({"("}, 0, 1), Tok(Digits, 1, 4),
      Tok({")"}, 0, 1), Tok({"-", " ", "."}, 0, 1), Tok(Digits, 1, 9)>>

\* phoneNumber.replace(/\s/g, '')
NoSpaces(text) == SelectSeq(text, LAMBDA c : c # " ")

\* mutant: the phone number is not validated
ValidationNoPhone(f) ==
    IF \E fld \in DOMAIN f : f[fld] = NoText THEN "fields"
    ELSE IF ~Matches(emailRegex, f.email) THEN "email"
    ELSE IF f.password # f.confirmPassword THEN "mismatch"
    ELSE IF Len(f.password) < 6 THEN "short"
    ELSE "ok"

\* lines 112-139: the first validation that fails, or "ok"
Validation(f) ==
    IF \E fld \in DOMAIN f : f[fld] = NoText THEN "fields"
    ELSE IF ~Matches(emailRegex, f.email) THEN "email"
    ELSE IF f.password # f.confirmPassword THEN "mismatch"
    ELSE IF Len(f.password) < 6 THEN "short"
    ELSE IF ~Matches(phoneRegex, NoSpaces(f.phoneNumber)) THEN "phone"
    ELSE "ok"

\* saveUserDetailsToBackend: the endpoints it tries in turn
Endpoints(os) == IF os = "web" THEN 2 ELSE 1

\* the user types into a field
SignupEdit ==
    /\ suRoute = "signup" /\ suPc = "idle" /\ ~suAlert
    /\ nSignups < MaxSignups
    /\ \E fld \in DOMAIN form : \E v \in FieldValues[fld] \ {form[fld]} :
         form' = [form EXCEPT ![fld] = v]
    /\ UNCHANGED <<suLoading, suPc, suTried, suOut, suAlert, suRoute, calls, nSignups,
                   recVars, voiceVars, guardVars>>

\* the Sign Up button: handleSignup up to `await signUp(email, password)`
SignupPress ==
    /\ suRoute = "signup" /\ ~suLoading /\ ~suAlert
    /\ nSignups < MaxSignups
    /\ nSignups' = nSignups + 1
    /\ IF Validation(form) # "ok"
       THEN UNCHANGED <<suLoading, suPc, calls>>
       ELSE /\ suLoading' = TRUE
            /\ calls' = Append(calls, "signUp")
            /\ suPc' = "signUp"
    /\ UNCHANGED <<form, suTried, suOut, suAlert, suRoute, recVars, voiceVars, guardVars>>

\* signUp returns: with an error, with a user, without one, or it throws
SignUpReturns ==
    /\ suPc = "signUp"
    /\ \E outcome \in {"error", "user", "nouser", "throws"} :
         /\ suOut' = outcome
         /\ IF outcome = "user"
            THEN \* saveUserDetailsToBackend: the first fetch
                 /\ calls' = Append(calls, "fetch")
                 /\ suTried' = 1
                 /\ suPc' = "fetch"
                 /\ UNCHANGED <<suLoading, suAlert>>
            ELSE /\ suAlert' = (outcome = "nouser")
                 /\ suLoading' = FALSE
                 /\ suPc' = "idle"
                 /\ UNCHANGED <<calls, suTried>>
    /\ UNCHANGED <<form, suRoute, nSignups, recVars, voiceVars, guardVars>>

\* a fetch of saveUserDetailsToBackend returns
SaveFetchReturns ==
    /\ suPc = "fetch"
    /\ \E outcome \in {"ok", "notok", "throws"} :
         IF outcome = "ok"
         THEN /\ suRoute' = "tabs"
              /\ suLoading' = FALSE
              /\ suPc' = "idle"
              /\ UNCHANGED <<calls, suTried, suAlert>>
         ELSE IF suTried < Endpoints(platform)
         THEN /\ calls' = Append(calls, "fetch")
              /\ suTried' = suTried + 1
              /\ UNCHANGED <<suRoute, suLoading, suPc, suAlert>>
         ELSE /\ suAlert' = TRUE
              /\ suLoading' = FALSE
              /\ suPc' = "idle"
              /\ UNCHANGED <<calls, suTried, suRoute>>
    /\ UNCHANGED <<form, suOut, nSignups, recVars, voiceVars, guardVars>>

\* the OK button of the alert: router.replace('/(tabs)')
SignupAlertOk ==
    /\ suAlert
    /\ suAlert' = FALSE
    /\ suRoute' = "tabs"
    /\ UNCHANGED <<form, suLoading, suPc, suTried, suOut, calls, nSignups,
                   recVars, voiceVars, guardVars>>

NextSignup ==
    \/ SignupEdit
    \/ SignupPress
    \/ SignUpReturns
    \/ SaveFetchReturns
    \/ SignupAlertOk

InitSignup ==
    /\ InitVoice(ConnCaps, Platforms) /\ user = NoUser
    /\ InitHome({FALSE})

SignupSpec == InitSignup /\ [][NextSignup]_vars

\* every validation of the form passes
FormPasses(f) ==
    /\ \A fld \in DOMAIN f : f[fld] # NoText
    /\ Matches(emailRegex, f.email)
    /\ f.password = f.confirmPassword
    /\ Len(f.password) >= 6
    /\ Matches(phoneRegex, NoSpaces(f.phoneNumber))

Called(what) == Len(calls') = Len(calls) + 1 /\ calls'[Len(calls')] = what

\* C20: signUp is called only with a form that passes every validation; the
\* backend is contacted only after signUp returned a user and no error, and
\* never before a signUp call
C20_SignupOrder ==
    /\ [][Called("signUp") => FormPasses(form)]_vars
    /\ [][Called("fetch") => (suOut' = "user" /\ suPc \in {"signUp", "fetch"})]_vars
    /\ [](\A i \in 1 .. Len(calls) :
            calls[i] = "fetch" => (i > 1 /\ calls[i - 1] \in {"signUp", "fetch"}))

C20_Witness ==
    /\ Len(calls) >= 2 /\ calls[1] = "signUp" /\ calls[Len(calls)] = "fetch"
    /\ suOut = "user" /\ suPc = "idle" /\ suRoute = "tabs" /\ FormPasses(form)

\* ============================================================== auth guard
\* mutant: the effect navigates while loading as well
GuardTargetIgnoresLoading(u, loading) ==
    IF u # NoUser THEN "tabs" ELSE "login"

\* the effect's body (lines 10-18): the route it replaces with, or "none"
GuardTarget(u, loading) ==
    IF ~loading
    THEN IF u # NoUser THEN "tabs" ELSE "login"
    ELSE "none"

\* the effect runs and the deps are remembered
GuardEffect(kind) ==
    LET target == GuardTarget(agUser, agLoading) IN
    /\ agRoute' = IF target # "none" THEN target ELSE agRoute
    /\ agEv' = [kind |-> kind, nav |-> target # "none"]
    /\ agDeps' = <<agUser, agLoading>>

\* the first render: the effect runs whatever the deps
GuardMount ==
    /\ agMounted = "new"
    /\ agMounted' = "up"
    /\ GuardEffect("mount")
    /\ UNCHANGED <<agUser, agLoading, nAuth, recVars, signupVars, voiceVars>>

\* the auth context changes user or loading (several changes may precede
\* the guard's next render)
AuthChange ==
    /\ nAuth < MaxAuthChanges
    /\ nAuth' = nAuth + 1
    /\ \E u \in Users \cup {NoUser} : \E l \in BOOLEAN :
         /\ <<u, l>> # <<agUser, agLoading>>
         /\ agUser' = u
         /\ agLoading' = l
    /\ agEv' = [kind |-> "auth", nav |-> FALSE]
    /\ UNCHANGED <<agMounted, agDeps, agRoute, recVars, signupVars, voiceVars>>

\* a re-render: useEffect(..., [user, loading]) runs when a dep has changed
GuardRender ==
    /\ agMounted = "up"
    /\ agDeps # <<agUser, agLoading>>
    /\ GuardEffect("render")
    /\ UNCHANGED <<agUser, agLoading, agMounted, nAuth, recVars, signupVars, voiceVars>>

\* the guard's route is left
GuardUnmount ==
    /\ agMounted = "up"
    /\ agMounted' = "gone"
    /\ agEv' = [kind |-> "unmount", nav |-> FALSE]
    /\ UNCHANGED <<agUser, agLoading, agDeps, agRoute, nAuth, recVars, signupVars, voiceVars>>

NextGuard ==
    \/ GuardMount
    \/ AuthChange
    \/ GuardRender
    \/ GuardUnmount

InitGuardScreen ==
    /\ InitVoice(ConnCaps, {"native"}) /\ user = NoUser
    /\ InitSignupScreen
    /\ InitGuard({NoUser, "u1"}, BOOLEAN)
    /\ now = 0 /\ paramUri = FALSE /\ hRecording = FALSE /\ recordedURI = NoClip
    /\ hLoading = FALSE /\ sendPc = "idle" /\ added = <<>> /\ updated = <<>>
    /\ hev = "init"

\* every render that is due happens
GuardSpec == InitGuardScreen /\ [][NextGuard]_vars /\ WF_vars(GuardMount) /\ WF_vars(GuardRender)

EffectRan == agEv'.kind \in {"mount", "render"}

\* C21: the guard navigates only from its effect and never while loading;
\* an effect run with loading false replaces the route with the tab shell
\* when user is set and with the login route otherwise; and every change of
\* user or loading is followed by a run of the effect under the new values
C21_GuardNavigation ==
    /\ [][agRoute' # agRoute => (EffectRan /\ agEv'.nav)]_vars
    /\ [][(EffectRan /\ agLoading) => (~agEv'.nav /\ agRoute' = agRoute)]_vars
    /\ [][(EffectRan /\ ~agLoading)
            => (agEv'.nav /\ agRoute' = IF agUser # NoUser THEN "tabs" ELSE "login")]_vars
    /\ [][(agMounted = "up" /\ agMounted' = "up" /\ agDeps' # agDeps) => EffectRan]_vars
    /\ ((agMounted = "up" /\ agDeps # <<agUser, agLoading>>)
            ~> (agMounted = "gone" \/ agDeps = <<agUser, agLoading>>))

C21_Witness ==
    /\ agMounted = "up" /\ agEv.kind = "render" /\ agEv.nav
    /\ agRoute = "tabs" /\ agUser # NoUser /\ ~agLoading /\ nAuth >= 2

====
